---- MODULE Spec2Model ----
(***************************************************************************)
(* Model of smix: the pixel mixer (smix/src/lib.rs), the batch CLI         *)
(* (cli/src/main.rs) and the interactive preview (cli/src/gui.rs).         *)
(*                                                                         *)
(* f32 values are modelled as exact fixed-point numbers: the integer v     *)
(* stands for v / One.  Weights lie on the grid One / WDen, 8-bit samples  *)
(* decoded by into_rgba32f lie on the grid One / ChanMax, so every product *)
(* weight * sample is again an integer.  NaN is a separate value that      *)
(* compares false with everything, itself included.                        *)
(***************************************************************************)
EXTENDS Integers, Sequences, FiniteSets, TLC

VARIABLES
    \* --- smix::mix_pixel called on its own
    pixel,      \* the in-out RGBA pixel
    before,     \* the pixel as it was handed to mix_pixel
    weight,     \* [Rw, Gw, Bw]
    mask,       \* the three RGBA samples
    kfac,       \* a positive factor applied to all three weights
    scaled,     \* the pixel mixed with the weights multiplied by kfac
    mpc,        \* which calls have returned
    \* --- Mask::generate called on its own
    gmask,      \* the loaded mask set
    gweight,    \* the weights handed to generate
    gimage,     \* the generated 8-bit image (NoImage before the call)
    \* --- the CLI run (main)
    args,       \* the parsed Args
    images,     \* Tool::images, name -> generated image
    pc,         \* where main is
    li,         \* load_mask: directories handled so far
    gi,         \* generate: index of the scale factor being handled
    todo,       \* generate: names the inner loop has not visited yet
    files,      \* the output directory, file name -> written image
    stdout,     \* the lines printed by generate
    \* --- the preview window
    masks,      \* the keys of PreView::masks
    current,    \* PreView::current
    last,       \* PreView::last
    tex,        \* PreView::tex
    frame,      \* frames drawn so far
    rendered,   \* whether the latest frame ran update_preview
    atStart,    \* last, current and tex as the latest frame found them
    saved       \* files written through the Save button

mixVars == <<pixel, before, weight, mask, kfac, scaled, mpc>>
genVars == <<gmask, gweight, gimage>>
cliVars == <<args, images, pc, li, gi, todo, files, stdout>>
guiVars == <<masks, current, last, tex, frame, rendered, atStart, saved>>
vars == <<mixVars, genVars, cliVars, guiVars>>

None == "None"
NoImage == [width |-> 0, height |-> 0, px |-> <<>>]

\* ------------------------------------------------------------------------
\* Numbers
\* ------------------------------------------------------------------------
WDen == 20
ChanMax == 255
One == WDen * ChanMax
NaN == -999999999

FLt(a, b) == a # NaN /\ b # NaN /\ a < b
FEq(a, b) == a # NaN /\ b # NaN /\ a = b
\* a * b / One, split so that no intermediate product leaves TLC's integers
FMul(a, b) ==
    IF a = NaN \/ b = NaN THEN NaN
    ELSE a * (b \div One) + (a * (b % One)) \div One
FAdd(a, b) == IF a = NaN \/ b = NaN THEN NaN ELSE a + b
\* f32::clamp(lo, hi): NaN stays NaN
FClamp(v, lo, hi) == IF v = NaN THEN NaN ELSE IF v < lo THEN lo ELSE IF v > hi THEN hi ELSE v
\* f32::round: half away from zero
FRound(v) ==
    IF v = NaN THEN NaN
    ELSE IF v >= 0 THEN ((2 * v + One) \div (2 * One)) * One
    ELSE -(((2 * (-v) + One) \div (2 * One)) * One)
\* `as u8`: truncate toward zero, saturate to 0..255, NaN -> 0
FToU8(v) ==
    IF v = NaN THEN 0
    ELSE IF v <= 0 THEN 0
    ELSE IF v \div One > ChanMax THEN ChanMax ELSE v \div One
\* `as u32`: truncate toward zero, negative and NaN -> 0 (the upper
\* saturation at 2^32 - 1 lies outside the numbers the model reaches)
FToU32(v) ==
    IF v = NaN THEN 0
    ELSE IF v <= 0 THEN 0
    ELSE v \div One
\* `width as f32`
IntToF(n) == n * One
\* into_rgba32f: an 8-bit sample b becomes b / 255
into_rgba32f(c) == [i \in 1..4 |-> (c[i] * One) \div ChanMax]

\* ------------------------------------------------------------------------
\* smix::apply_weight, smix::mix_pixel
\* ------------------------------------------------------------------------
apply_weight_third_dropped(w, value) ==
    FAdd(FMul(w[1], value[1]), FMul(w[2], value[2]))

apply_weight_normalized(w, value) ==
    LET s == w[1] + w[2] + w[3]
    IN  IF s = 0 THEN 0
        ELSE (w[1] * value[1] + w[2] * value[2] + w[3] * value[3]) \div s

apply_weight(w, value) ==
    FAdd(FAdd(FMul(w[1], value[1]), FMul(w[2], value[2])), FMul(w[3], value[3]))

mix_pixel_channel_swapped(p, w, m) ==
    [i \in 1..4 |->
        IF i <= 3 THEN apply_weight(w, <<m[1][4 - i], m[2][4 - i], m[3][4 - i]>>)
        ELSE p[i]]

mix_pixel(p, w, m) ==
    [i \in 1..4 |->
        IF i <= 3 THEN apply_weight(w, <<m[1][i], m[2][i], m[3][i]>>)
        ELSE p[i]]

\* lib.rs f32img_to_u8img / main.rs f32img_to_u8img, one channel
ToU8(v) == FToU8(FRound(FMul(FClamp(v, 0, One), IntToF(ChanMax))))
f32img_to_u8img(px) == [n \in DOMAIN px |-> [i \in 1..4 |-> ToU8(px[n][i])]]

\* ------------------------------------------------------------------------
\* mix_pixel on its own: one call with the weights, one with the weights
\* multiplied by kfac
\* ------------------------------------------------------------------------
MaxK == 2

\* 0.8, 0.15, 0.05 are the weights of the doctest; -0.5 and 1.5 lie outside [0, 1]
MixWeightVals == {(-10) * ChanMax, 0, 1 * ChanMax, 3 * ChanMax, 16 * ChanMax, 30 * ChanMax}
SampleBytes == {<<255, 0, 0, 255>>, <<0, 255, 0, 255>>, <<0, 0, 255, 255>>, <<40, 200, 90, 0>>}
Samples == {into_rgba32f(c) : c \in SampleBytes}
PixelInits == {<<0, 0, 0, One>>, <<One, One \div 5, 0, One \div 5>>}

InitIdleMix ==
    /\ pixel = <<0, 0, 0, 0>> /\ before = <<0, 0, 0, 0>> /\ weight = <<0, 0, 0>>
    /\ mask = <<>> /\ kfac = 1 /\ scaled = <<0, 0, 0, 0>> /\ mpc = "idle"

InitIdleGen == gmask = <<>> /\ gweight = <<0, 0, 0>> /\ gimage = NoImage

InitIdleCli ==
    /\ args = None /\ images = <<>> /\ pc = "idle" /\ li = 0 /\ gi = 0
    /\ todo = {} /\ files = <<>> /\ stdout = <<>>

InitIdleGui ==
    /\ masks = {} /\ current = None /\ last = None /\ tex = <<>> /\ frame = 0
    /\ rendered = FALSE /\ atStart = None /\ saved = {}

InitMix ==
    /\ pixel \in PixelInits
    /\ before = pixel
    /\ weight \in MixWeightVals \X MixWeightVals \X MixWeightVals
    /\ mask \in Samples \X Samples \X Samples
    /\ kfac \in 1..MaxK
    /\ scaled = pixel
    /\ mpc = "start"
    /\ InitIdleGen /\ InitIdleCli /\ InitIdleGui

\* mix_pixel(&mut px, &w, &m)
MixPixel ==
    /\ mpc = "start"
    /\ pixel' = mix_pixel(pixel, weight, mask)
    /\ mpc' = "mixed"
    /\ UNCHANGED <<before, weight, mask, kfac, scaled, genVars, cliVars, guiVars>>

\* mix_pixel(&mut px, &[k*w0, k*w1, k*w2], &m) on a copy of the same pixel
MixPixelScaled ==
    /\ mpc = "mixed"
    /\ scaled' = mix_pixel(before, [i \in 1..3 |-> FMul(IntToF(kfac), weight[i])], mask)
    /\ mpc' = "both"
    /\ UNCHANGED <<pixel, before, weight, mask, kfac, genVars, cliVars, guiVars>>

NextMix == MixPixel \/ MixPixelScaled
SpecMix == InitMix /\ [][NextMix]_vars

\* The exact value, times One * One, of wR*mR[c] + wG*mG[c] + wB*mB[c]
WeightedSum(w, m, c) == w[1] * m[1][c] + w[2] * m[2][c] + w[3] * m[3][c]
WeightSum(w) == w[1] + w[2] + w[3]

\* C1: after mix_pixel, pixel[c] = wR*mR[c] + wG*mG[c] + wB*mB[c] for each of
\* R, G, B, and pixel[3] (alpha) is what it was before the call; the masks'
\* alpha components do not appear in the result.
C1_MixIsWeightedSum ==
    mpc \in {"mixed", "both"} =>
        /\ \A c \in 1..3 : pixel[c] * One = WeightedSum(weight, mask, c)
        /\ pixel[4] = before[4]

\* C1 witness: the doctest, weights [0.8, 0.15, 0.05] on unit red/green/blue masks
C1_Witness ==
    /\ mpc = "mixed"
    /\ weight = <<16 * ChanMax, 3 * ChanMax, 1 * ChanMax>>
    /\ mask = <<into_rgba32f(<<255, 0, 0, 255>>), into_rgba32f(<<0, 255, 0, 255>>),
                into_rgba32f(<<0, 0, 255, 255>>)>>
    /\ before = <<0, 0, 0, One>>
    /\ pixel = <<(8 * One) \div 10, (15 * One) \div 100, (5 * One) \div 100, One>>

Dimensions(img) == <<img.width, img.height>>

\* open(..)?.into_rgba32f() for r.png, g.png, b.png
DecodeImage(img) == [img EXCEPT !.px = [n \in DOMAIN img.px |-> into_rgba32f(img.px[n])]]
Mask_new(dir) == <<DecodeImage(dir.r), DecodeImage(dir.g), DecodeImage(dir.b)>>

good_first_two_only(m) == Dimensions(m[1]) = Dimensions(m[2])

good(m) ==
    Dimensions(m[1]) = Dimensions(m[2]) /\ Dimensions(m[2]) = Dimensions(m[3])

ZeroPixel == <<0, 0, 0, 0>>

generate_pixel_no_alpha_test(m, w, n) ==
    LET alpha == m[2].px[n][4]
    IN  mix_pixel([ZeroPixel EXCEPT ![4] = alpha], w, <<m[1].px[n], m[2].px[n], m[3].px[n]>>)

\* the body of the loop of generate, for the pixel at index n
generate_pixel(m, w, n) ==
    LET alpha == m[1].px[n][4]
    IN  IF FEq(alpha, 0) THEN ZeroPixel
        ELSE mix_pixel([ZeroPixel EXCEPT ![4] = alpha], w,
                       <<m[1].px[n], m[2].px[n], m[3].px[n]>>)

Mask_generate(m, w) ==
    [width  |-> m[1].width,
     height |-> m[1].height,
     px     |-> f32img_to_u8img([n \in 1..(m[1].width * m[1].height) |-> generate_pixel(m, w, n)])]

\* ------------------------------------------------------------------------
\* Mask::generate on its own, on every mask set of up to MaxPixels pixels
\* ------------------------------------------------------------------------
MaxPixels == 2

GenBytes == {<<255, 10, 0, 255>>, <<30, 255, 60, 0>>, <<7, 0, 200, 128>>}
GenWeights == {<<One, 0, 0>>, <<0, 0, 0>>, <<One \div 2, One \div 4, One \div 4>>, <<One, One, One>>}

Row(pxs) == [width |-> Len(pxs), height |-> 1, px |-> pxs]
RowsOf(n) == {Row(pxs) : pxs \in [1..n -> GenBytes]}

InitGen ==
    /\ \E n \in 1..MaxPixels :
          gmask \in [r : RowsOf(n), g : RowsOf(n), b : RowsOf(n)]
    /\ gweight \in GenWeights
    /\ gimage = NoImage
    /\ InitIdleMix /\ InitIdleCli /\ InitIdleGui

\* Mask::new(path)?.generate(&weight)
Generate ==
    /\ gimage = NoImage
    /\ good(Mask_new(gmask))
    /\ gimage' = Mask_generate(Mask_new(gmask), gweight)
    /\ UNCHANGED <<gmask, gweight, mixVars, cliVars, guiVars>>

NextGen == Generate
SpecGen == InitGen /\ [][NextGen]_vars

\* C3: where the R-mask's alpha is 0 the output pixel is (0, 0, 0, 0) whatever
\* the weights and the masks' RGB; elsewhere the output alpha is the R-mask's
\* 8-bit alpha, whatever the G- and B-masks' alpha.
C3_AlphaFromRMask ==
    gimage # NoImage =>
        \A n \in DOMAIN gimage.px :
            IF gmask.r.px[n][4] = 0
            THEN gimage.px[n] = ZeroPixel
            ELSE gimage.px[n][4] = gmask.r.px[n][4]

\* C3 witness: a generated image with a transparent R-mask pixel whose RGB and
\* weights are not zero, next to a pixel whose G- and B-mask alpha differ from
\* the R-mask's
C3_Witness ==
    /\ gimage # NoImage
    /\ gweight = <<One, One, One>>
    /\ Len(gimage.px) = 2
    /\ gmask.r.px[1] = <<30, 255, 60, 0>> /\ gimage.px[1] = ZeroPixel
    /\ gmask.r.px[2][4] = 128 /\ gmask.g.px[2][4] = 255 /\ gmask.b.px[2][4] = 0
    /\ gimage.px[2][4] = 128

\* ------------------------------------------------------------------------
\* The CLI: main = Tool::new, ensure_args, load_mask, generate
\* ------------------------------------------------------------------------
MaxScales == 2
MaxDirs == 2

\* A path is the list of its "/"-separated pieces: "t/" is <<"t", "">>.
\* The directories the run can be pointed at, with their r.png, g.png, b.png.
Img(w, h, pxs) == [width |-> w, height |-> h, px |-> pxs]
Disk ==
    [p \in {<<"a", "m">>, <<"b", "m">>, <<"t", "">>, <<"bad">>} |->
        CASE p = <<"a", "m">> ->
                [r |-> Img(2, 1, <<(<<200, 10, 30, 255>>), (<<90, 80, 70, 0>>)>>),
                 g |-> Img(2, 1, <<(<<0, 255, 0, 255>>), (<<5, 6, 7, 255>>)>>),
                 b |-> Img(2, 1, <<(<<0, 0, 255, 9>>), (<<1, 2, 3, 255>>)>>)]
          [] p = <<"b", "m">> ->
                [r |-> Img(1, 1, <<(<<255, 255, 255, 128>>)>>),
                 g |-> Img(1, 1, <<(<<100, 0, 0, 255>>)>>),
                 b |-> Img(1, 1, <<(<<0, 0, 100, 0>>)>>)]
          [] p = <<"t", "">> ->
                [r |-> Img(1, 2, <<(<<1, 2, 3, 4>>), (<<250, 0, 0, 255>>)>>),
                 g |-> Img(1, 2, <<(<<0, 250, 0, 255>>), (<<0, 250, 0, 255>>)>>),
                 b |-> Img(1, 2, <<(<<0, 0, 250, 255>>), (<<0, 0, 250, 255>>)>>)]
          [] p = <<"bad">> ->
                [r |-> Img(1, 1, <<(<<255, 0, 0, 255>>)>>),
                 g |-> Img(1, 1, <<(<<0, 255, 0, 255>>)>>),
                 b |-> Img(2, 1, <<(<<0, 0, 255, 255>>), (<<0, 0, 255, 255>>)>>)]]
\* a directory without r.png
MissingDir == <<"none">>
Paths == DOMAIN Disk \cup {MissingDir}

\* -1.0, 0.0, 1.0, 1.5 and NaN: all of them parse as f32
ScaleVals == {-One, 0, One, (3 * One) \div 2, NaN}
\* (1, 0, 0), (0.5, 0.25, 0.25), and 1.5 for red, which ensure_args rejects
CliWeights == {<<One, 0, 0>>, <<One \div 2, One \div 4, One \div 4>>, <<(3 * One) \div 2, 0, 0>>}

SeqsUpTo(S, n) == UNION {[1..k -> S] : k \in 0..n}

EmptyMap == [x \in {} |-> 0]
Put(f, k, v) == [x \in DOMAIN f \cup {k} |-> IF x = k THEN v ELSE f[x]]
BagAdd(bag, line) == Put(bag, line, IF line \in DOMAIN bag THEN bag[line] + 1 ELSE 1)
RECURSIVE BagTotal(_)
BagTotal(bag) ==
    IF DOMAIN bag = {} THEN 0
    ELSE LET k == CHOOSE x \in DOMAIN bag : TRUE
         IN  bag[k] + BagTotal([x \in DOMAIN bag \ {k} |-> bag[x]])
BagCount(bag, line) == IF line \in DOMAIN bag THEN bag[line] ELSE 0

\* Tool::new(): Args::parse(), images empty
InitCli ==
    /\ \E w \in CliWeights, sc \in SeqsUpTo(ScaleVals, MaxScales),
          md \in SeqsUpTo(Paths, MaxDirs) \ {<<>>} :
          args = [r |-> w[1], g |-> w[2], b |-> w[3], scale |-> sc, mask_directories |-> md]
    /\ images = EmptyMap
    /\ pc = "ensure_args"
    /\ li = 0 /\ gi = 0 /\ todo = {}
    /\ files = EmptyMap
    /\ stdout = [warn |-> EmptyMap, generating |-> EmptyMap]
    /\ InitIdleMix /\ InitIdleGen /\ InitIdleGui

\* a.partial_cmp(b).unwrap_or(Equal) == Less
is_less(a, b) == FLt(a, b)

\* slice::sort_by on a short slice: insertion sort, each element moved left
\* past the elements it is less than
RECURSIVE insert_tail(_, _)
insert_tail(sorted, x) ==
    IF sorted = <<>> THEN <<x>>
    ELSE IF is_less(x, sorted[Len(sorted)])
         THEN Append(insert_tail(SubSeq(sorted, 1, Len(sorted) - 1), x), sorted[Len(sorted)])
         ELSE Append(sorted, x)
RECURSIVE sort_by(_)
sort_by(v) ==
    IF v = <<>> THEN <<>>
    ELSE insert_tail(sort_by(SubSeq(v, 1, Len(v) - 1)), v[Len(v)])

\* Vec::dedup: drops an element equal (==) to the one kept before it
RECURSIVE dedup(_)
dedup(v) ==
    IF Len(v) <= 1 THEN v
    ELSE LET d == dedup(SubSeq(v, 1, Len(v) - 1))
         IN  IF FEq(v[Len(v)], d[Len(d)]) THEN d ELSE Append(d, v[Len(v)])

WeightOk(x) == x # NaN /\ x >= 0 /\ x <= One

ensure_args ==
    /\ pc = "ensure_args"
    /\ IF WeightOk(args.r) /\ WeightOk(args.g) /\ WeightOk(args.b)
       THEN /\ args' = [args EXCEPT !.scale = dedup(sort_by(Append(args.scale, One)))]
            /\ pc' = "load_mask"
       ELSE /\ pc' = "failed"
            /\ UNCHANGED args
    /\ UNCHANGED <<images, li, gi, todo, files, stdout, mixVars, genVars, guiVars>>

\* name.split("/").last()
DirName(path) == path[Len(path)]

\* load_mask, one turn of its loop: the directory at index li + 1
load_mask ==
    /\ pc = "load_mask"
    /\ LET path == args.mask_directories[li + 1]
           wgt  == <<args.r, args.g, args.b>>
       IN  IF path \notin DOMAIN Disk
           THEN pc' = "failed" /\ UNCHANGED <<images, li, gi, todo>>
           ELSE IF ~good(Mask_new(Disk[path]))
           THEN pc' = "failed" /\ UNCHANGED <<images, li, gi, todo>>
           ELSE /\ images' = Put(images, DirName(path), Mask_generate(Mask_new(Disk[path]), wgt))
                /\ li' = li + 1
                /\ IF li + 1 = Len(args.mask_directories)
                   THEN pc' = "generate" /\ gi' = 1 /\ todo' = DOMAIN images'
                   ELSE UNCHANGED <<pc, gi, todo>>
    /\ UNCHANGED <<args, files, stdout, mixVars, genVars, guiVars>>

is_negative_never(s) == FALSE

\* s < 0.0
is_negative(s) == FLt(s, 0)

\* (width as f32 * s) as u32
scaled_dimension(n, s) == FToU32(FMul(IntToF(n), s))
output_name(name, img, s) ==
    <<name, scaled_dimension(img.width, s), scaled_dimension(img.height, s)>>

\* s == 1.0
is_unit(s) == FEq(s, One)

\* what ends up in the file: the image itself, or imageops::resize of it
written_image(img, s) ==
    IF is_unit(s)
    THEN [width |-> img.width, height |-> img.height, px |-> img.px, resized |-> FALSE]
    ELSE [width |-> scaled_dimension(img.width, s),
          height |-> scaled_dimension(img.height, s),
          px |-> img.px, resized |-> TRUE]

\* the loop of generate moves on to the next name, the next factor, or ends
Advance(name) ==
    IF todo # {name} THEN todo' = todo \ {name} /\ UNCHANGED <<pc, gi>>
    ELSE IF gi < Len(args.scale) THEN todo' = DOMAIN images /\ gi' = gi + 1 /\ UNCHANGED pc
    ELSE todo' = {} /\ pc' = "done" /\ UNCHANGED gi

\* generate, one turn of its inner loop, the file written
generate ==
    /\ pc = "generate"
    /\ \E name \in todo :
          LET s == args.scale[gi] IN
          IF is_negative(s)
          THEN /\ stdout' = [stdout EXCEPT !.warn = BagAdd(@, <<s, gi - 1>>)]
               /\ UNCHANGED files
               /\ Advance(name)
          ELSE /\ stdout' = [stdout EXCEPT
                                !.generating = BagAdd(@, output_name(name, images[name], s))]
               /\ files' = Put(files, output_name(name, images[name], s),
                               written_image(images[name], s))
               /\ Advance(name)
    /\ UNCHANGED <<args, images, li, mixVars, genVars, guiVars>>

\* generate, one turn of its inner loop, flush / resize / save returning Err
generate_io_error ==
    /\ pc = "generate"
    /\ \E name \in todo :
          LET s == args.scale[gi] IN
          /\ ~is_negative(s)
          /\ stdout' = [stdout EXCEPT
                           !.generating = BagAdd(@, output_name(name, images[name], s))]
          /\ pc' = "failed"
    /\ UNCHANGED <<args, images, li, gi, todo, files, mixVars, genVars, guiVars>>

NextCli == ensure_args \/ load_mask \/ generate \/ generate_io_error
SpecCli == InitCli /\ [][NextCli]_vars

\* ------------------------------------------------------------------------
\* Properties of the CLI run
\* ------------------------------------------------------------------------
Dirs == args.mask_directories
DirSet == {Dirs[j] : j \in 1..Len(Dirs)}
Names == DOMAIN images
WeightsAccepted == WeightOk(args.r) /\ WeightOk(args.g) /\ WeightOk(args.b)
Mismatched(path) ==
    /\ path \in DOMAIN Disk
    /\ \/ Dimensions(Disk[path].r) # Dimensions(Disk[path].g)
       \/ Dimensions(Disk[path].r) # Dimensions(Disk[path].b)
       \/ Dimensions(Disk[path].g) # Dimensions(Disk[path].b)
\* the directory whose image sits in images under `name`: the last one loaded
SourceOf(name) ==
    Dirs[CHOOSE j \in 1..li :
            /\ DirName(Dirs[j]) = name
            /\ \A k \in (j + 1)..li : DirName(Dirs[k]) # name]
\* the names the inner loop has finished for the factor at index i
ProcessedAt(i) ==
    IF i < gi THEN Names ELSE IF i = gi THEN Names \ todo ELSE {}
ProcessedPairs == {q \in (1..Len(args.scale)) \X Names : q[2] \in ProcessedAt(q[1])}

\* C4: when a listed directory holds masks of different dimensions, load_mask
\* never gets past it, main never reaches generate and no file is written,
\* whatever was loaded before it; and every image that is generated has the
\* dimensions of all three of its masks.
C4_MismatchAbortsRun ==
    /\ \A j \in 1..Len(Dirs) :
          (pc # "idle" /\ Mismatched(Dirs[j])) =>
              /\ li < j
              /\ pc \in {"ensure_args", "load_mask", "failed"}
              /\ files = EmptyMap
    /\ \A name \in Names :
          LET d == Disk[SourceOf(name)]
          IN  /\ Dimensions(images[name]) = Dimensions(d.r)
              /\ Dimensions(images[name]) = Dimensions(d.g)
              /\ Dimensions(images[name]) = Dimensions(d.b)

\* C4 witness: the second directory is mismatched, the first was loaded, the
\* run has failed and the output directory is empty
C4_Witness ==
    /\ pc = "failed"
    /\ Len(Dirs) = 2 /\ li = 1
    /\ Mismatched(Dirs[2])
    /\ Names # {}
    /\ files = EmptyMap

\* C5 as stated: after ensure_args succeeds the scale list contains 1.0, is in
\* non-decreasing order and holds each value at most once.
C5_Original ==
    (pc \notin {"idle", "ensure_args"} /\ WeightsAccepted) =>
        LET sc == args.scale IN
        /\ \E i \in 1..Len(sc) : FEq(sc[i], One)
        /\ \A i, j \in 1..Len(sc) : i < j => ~FLt(sc[j], sc[i])
        /\ \A i, j \in 1..Len(sc) : i # j => ~FEq(sc[i], sc[j])

\* C6 as stated: after a successful run every (mask directory, positive scale
\* factor) pair has its own file <dirname>_<width>x<height>.png: the file
\* exists and no two distinct pairs share a file name.
PositiveFactors == {args.scale[i] : i \in {k \in 1..Len(args.scale) : FLt(0, args.scale[k])}}
FileOf(path, s) == output_name(DirName(path), Disk[path].r, s)
C6_Original ==
    pc = "done" =>
        /\ \A d \in DirSet, s \in PositiveFactors : FileOf(d, s) \in DOMAIN files
        /\ \A d1, d2 \in DirSet, s1, s2 \in PositiveFactors :
              (<<d1, s1>> # <<d2, s2>>) => FileOf(d1, s1) # FileOf(d2, s2)

\* C7: every (negative factor, mask set) pair the loop has handled printed one
\* warning and started no file; generate fails only at a factor that is not
\* negative; and when generate returns Ok every pair with a factor that is not
\* negative was processed and has its file.
C7_NegativeSkipped ==
    gi >= 1 =>
        /\ \A i \in 1..Len(args.scale) :
              FLt(args.scale[i], 0) =>
                  BagCount(stdout.warn, <<args.scale[i], i - 1>>) = Cardinality(ProcessedAt(i))
        /\ BagTotal(stdout.generating) =
              Cardinality({q \in ProcessedPairs : ~FLt(args.scale[q[1]], 0)})
                + (IF pc = "failed" THEN 1 ELSE 0)
        /\ DOMAIN files \subseteq DOMAIN stdout.generating
        /\ (pc = "failed" => ~FLt(args.scale[gi], 0))
        /\ (pc = "done" =>
              \A i \in 1..Len(args.scale), name \in Names :
                  ~FLt(args.scale[i], 0) =>
                      output_name(name, images[name], args.scale[i]) \in DOMAIN files)

\* C7 witness: a finished run over two mask sets whose first factor is negative:
\* two warnings for it, and the files of the remaining factor
C7_Witness ==
    /\ pc = "done"
    /\ Cardinality(Names) = 2
    /\ args.scale = <<-One, One>>
    /\ BagCount(stdout.warn, <<-One, 0>>) = 2
    /\ Cardinality(DOMAIN files) = 2

\* C8 as stated: every factor that is not positive, zero included, prints its
\* warning for each mask set and is skipped, and the run does not fail at it.
C8_Original ==
    gi >= 1 =>
        \A i \in 1..Len(args.scale) :
            (FLt(args.scale[i], 0) \/ FEq(args.scale[i], 0)) =>
                /\ BagCount(stdout.warn, <<args.scale[i], i - 1>>) = Cardinality(ProcessedAt(i))
                /\ ~(pc = "failed" /\ gi = i)

\* C9 as stated: with weights (1, 0, 0) and the scale list [1.0], every listed
\* mask directory has a file <dirname>_<width>x<height>.png of the masks'
\* dimensions, not resampled, whose every pixel is the R-mask's pixel.
C9_Original ==
    (pc = "done" /\ <<args.r, args.g, args.b>> = <<One, 0, 0>> /\ args.scale = <<One>>) =>
        \A d \in DirSet :
            LET f == <<DirName(d), Disk[d].r.width, Disk[d].r.height>>
            IN  /\ f \in DOMAIN files
                /\ ~files[f].resized
                /\ Dimensions(files[f]) = Dimensions(Disk[d].r)
                /\ \A n \in DOMAIN Disk[d].r.px : files[f].px[n] = Disk[d].r.px[n]

\* C9 amended: with weights (1, 0, 0) and the scale list [1.0], every name in
\* images (the last listed directory with that final path component) has a
\* file <name>_<width>x<height>.png of the masks' dimensions, not resampled,
\* whose pixel is the R-mask's pixel where the R-mask's alpha is not 0 and
\* (0, 0, 0, 0) where it is 0.
C9_UnitWeightCopiesRMask ==
    (pc = "done" /\ <<args.r, args.g, args.b>> = <<One, 0, 0>> /\ args.scale = <<One>>) =>
        \A name \in Names :
            LET r == Disk[SourceOf(name)].r
                f == <<name, r.width, r.height>>
            IN  /\ f \in DOMAIN files
                /\ ~files[f].resized
                /\ Dimensions(files[f]) = Dimensions(r)
                /\ \A n \in DOMAIN r.px :
                      files[f].px[n] = IF r.px[n][4] = 0 THEN ZeroPixel ELSE r.px[n]

\* C9 witness: a/m exported alone with weights (1, 0, 0) at scale 1.0: its
\* opaque pixel is the R-mask's, its transparent pixel is (0, 0, 0, 0)
C9_Witness ==
    /\ pc = "done"
    /\ <<args.r, args.g, args.b>> = <<One, 0, 0>>
    /\ args.scale = <<One>>
    /\ Dirs = << <<"a", "m">> >>
    /\ <<"m", 2, 1>> \in DOMAIN files
    /\ files[<<"m", 2, 1>>].px = <<(<<200, 10, 30, 255>>), ZeroPixel>>

\* ------------------------------------------------------------------------
\* The preview window: PreView::new, then eframe calling update once a frame
\* ------------------------------------------------------------------------
MaxFrames == 3

\* the keys of the masks handed to PreView::new and the directory behind each
GuiMasks == [k \in {"", "m"} |-> IF k = "m" THEN Disk[<<"a", "m">>] ELSE Disk[<<"t", "">>]]
\* the ends of the weight sliders, 0.0 and 1.0, and two places of the scale slider
GuiWeightVals == {0, One}
GuiScaleVals == {One \div 2, One}

\* gui.rs Args::new
Args_new(w, default_key) == [weight |-> w, scale |-> One, key |-> default_key]

\* #[derive(PartialEq)] on Args
ArgsEq(a, b) ==
    /\ \A i \in 1..3 : FEq(a.weight[i], b.weight[i])
    /\ FEq(a.scale, b.scale)
    /\ a.key = b.key

\* preview_256x: the image generated for the current key and weights, resized
\* to 256 x 256 by the Nearest filter
preview_256x(cur) ==
    [from |-> Mask_generate(Mask_new(GuiMasks[cur.key]), cur.weight), width |-> 256, height |-> 256]

\* PreView::new(weight, masks): tex is None (the empty sequence), Some(t) is <<t>>
InitGui ==
    /\ masks \in (SUBSET DOMAIN GuiMasks) \ {{}}
    /\ \E w \in GuiWeightVals \X GuiWeightVals \X GuiWeightVals, k \in masks :
          current = Args_new(w, k)
    /\ last = Args_new(<<0, 0, 0>>, "")
    /\ tex = <<>>
    /\ frame = 0
    /\ rendered = FALSE
    /\ atStart = [dirty |-> FALSE, tex |-> <<>>, current |-> current]
    /\ saved = {}
    /\ InitIdleMix /\ InitIdleGen /\ InitIdleCli

\* what the user can do to the widgets during one frame
Edits ==
    {<<"none", 0, 0>>, <<"save", 0, 0>>, <<"cancelled save", 0, 0>>}
      \cup {<<"key", k, 0>> : k \in masks}
      \cup {<<"weight", i, v>> : i \in 1..3, v \in GuiWeightVals}
      \cup {<<"scale", 0, v>> : v \in GuiScaleVals}

edited(cur, e) ==
    CASE e[1] = "key"    -> [cur EXCEPT !.key = e[2]]
      [] e[1] = "weight" -> [cur EXCEPT !.weight[e[2]] = e[3]]
      [] e[1] = "scale"  -> [cur EXCEPT !.scale = e[3]]
      [] OTHER           -> cur

\* the Save button: the image of the current key and weights, resized by the
\* current scale, under export_name
save_file(cur) ==
    LET img == Mask_generate(Mask_new(GuiMasks[cur.key]), cur.weight)
        nw  == scaled_dimension(img.width, cur.scale)
        nh  == scaled_dimension(img.height, cur.scale)
    IN  [name |-> <<cur.key, nw, nh>>, width |-> nw, height |-> nh, from |-> img]

\* eframe::App::update, one frame
update ==
    /\ frame < MaxFrames
    /\ frame' = frame + 1
    /\ LET changed == ~ArgsEq(last, current) IN
       /\ atStart' = [dirty |-> changed, tex |-> tex, current |-> current]
       /\ rendered' = changed
       /\ IF changed
          THEN tex' = <<preview_256x(current)>> /\ last' = current
          ELSE UNCHANGED <<tex, last>>
    /\ \E e \in Edits :
          /\ current' = edited(current, e)
          /\ saved' = IF e[1] = "save" THEN saved \cup {save_file(current)} ELSE saved
    /\ UNCHANGED <<masks, mixVars, genVars, cliVars>>

NextGui == update
SpecGui == InitGui /\ [][NextGui]_vars

\* C10 as stated: a frame renders exactly when it starts Dirty; right after the
\* render last is the current args of that moment and the texture is their
\* render; a frame that starts Clean leaves the texture alone; an edit of a
\* weight or of the selected mask leaves the state Dirty; and from the first
\* frame on a texture exists.
C10_Original ==
    frame >= 1 =>
        /\ rendered = atStart.dirty
        /\ (rendered => last = atStart.current /\ tex = <<preview_256x(atStart.current)>>)
        /\ (~rendered => tex = atStart.tex)
        /\ ((current.weight # atStart.current.weight \/ current.key # atStart.current.key)
              => ~ArgsEq(last, current))
        /\ tex # <<>>

====
